---------------------------- MODULE Spec2Model ----------------------------
(***************************************************************************)
(* Study Buddy backend (convex/chat.ts, convex/schema.ts): the two tables, *)
(* the public queries and mutations, and the scheduled generateAIResponse  *)
(* action with its saveAIMessage mutation.                                 *)
(*                                                                         *)
(* Every query and mutation is one atomic step (a Convex transaction).     *)
(* The action generateAIResponse is not atomic: it is one step per await   *)
(* (runQuery, the provider call, runMutation), so other handlers           *)
(* interleave with it.                                                     *)
(*                                                                         *)
(* Text is a sequence of words, so that String.includes is a real          *)
(* sub-sequence search and += is concatenation.                            *)
(***************************************************************************)
EXTENDS Integers, Sequences, FiniteSets, TLC

VARIABLES
    conversations,  \* table "conversations", in insertion (_creationTime) order
    messages,       \* table "messages", in insertion (_creationTime) order
    now,            \* the value Date.now() returns
    jobs,           \* the generateAIResponse runs handed to ctx.scheduler
    ret             \* outcome of the most recent public function call

vars == <<conversations, messages, now, jobs, ret>>

---------------------------------------------------------------------------
(* Bounds of the model *)

MaxConversations == 2   \* rows createConversation may insert
MaxSubmits == 2         \* successful sendMessage calls (one job each)
MaxTime == 1            \* last value of the clock
MaxWords == 3           \* longest description of a thrown value (GenSpec)

---------------------------------------------------------------------------
(* Inputs *)

Users == {"u1", "u2"}
NoUser == "null"                      \* getAuthUserId(ctx) === null
Callers == Users \cup {NoUser}

Titles == {<<"Essay", "Help">>}
Contents == {<<"hello">>}
Subjects == {"History"}

\* Identifiers a caller may pass: those of all rows that can exist, and one
\* that never exists.
ConversationIds == 1 .. (MaxConversations + 1)
MessageIds == 1 .. (2 * MaxSubmits)

\* What openai.chat.completions.create resolves to: the choices array.
\* content is null or a string; a missing choice is the empty array.
Undefined == [kind |-> "undefined", text |-> <<>>]
NullContent == [kind |-> "null", text |-> <<>>]
StringContent(s) == [kind |-> "string", text |-> s]
ProviderResponses ==
    { <<>>,
      << [message |-> [content |-> NullContent]] >>,
      << [message |-> [content |-> StringContent(<<>>)]] >>,
      << [message |-> [content |-> StringContent(<<"Start", "by">>)]] >> }

\* Values an await can throw.
ErrorOf(msg) == [isError |-> TRUE, message |-> msg]
NonError(msg) == [isError |-> FALSE, message |-> msg]
Thrown ==
    { ErrorOf(<<"network", "timeout">>),
      NonError(<<"network", "down">>) }
\* What a rejected ctx.runQuery / ctx.runMutation throws when the platform
\* fails the call.
RunErrors == { ErrorOf(<<"Server", "Error">>) }
NoError == NonError(<<>>)

\* Every description of at most MaxWords words over the words the catch
\* block looks for, their capitalised forms and one other word; thrown as an
\* Error object or as a bare value.
Words == {"rate", "limit", "network", "Network", "other"}
Descriptions == UNION { [1 .. n -> Words] : n \in 0 .. MaxWords }
AllThrown == { ErrorOf(d) : d \in Descriptions } \cup { NonError(d) : d \in Descriptions }

---------------------------------------------------------------------------
(* Helpers over sequences *)

RECURSIVE Reverse(_)
Reverse(s) == IF s = <<>> THEN <<>> ELSE Reverse(Tail(s)) \o <<Head(s)>>

\* String.prototype.includes
includes(s, pat) ==
    \E i \in 1 .. (Len(s) - Len(pat) + 1) : SubSeq(s, i, i + Len(pat) - 1) = pat

---------------------------------------------------------------------------
(* The store: ctx.db *)

\* ctx.db.get(id) on "conversations" is non-null
Exists(conversationId) == conversationId \in DOMAIN conversations

\* by_user without the q.eq("userId", userId) range: every user's rows.
by_user_unfiltered(userId) == conversations

\* .withIndex("by_user", q => q.eq("userId", userId)): the rows of one user.
\* The index is on userId alone, so within one user the rows come in
\* _creationTime order, which is the order of insertion.
by_user(userId) == SelectSeq(conversations, LAMBDA c : c.userId = userId)

\* .withIndex("by_conversation", q => q.eq("conversationId", id))
by_conversation(conversationId) ==
    SelectSeq(messages, LAMBDA m : m.conversationId = conversationId)

\* .order("asc") written as .order("desc")
OrderAscAsDesc(rows) == Reverse(rows)

\* .order("asc") / .order("desc") on an index range
OrderAsc(rows) == rows
OrderDesc(rows) == Reverse(rows)

\* getAuthUserId(ctx): the caller's user id, or null
getAuthUserId(caller) == caller

\* What the caller of a public function sees: which function answered, and
\* the error it threw ("ok" when it returned).  The returned value is the
\* function's ...Outcome(...).value.
Result(op, error) == [op |-> op, error |-> error]

Unauthenticated == "Not authenticated"
NotFound == "Conversation not found"
Ok == "ok"

---------------------------------------------------------------------------
(* Queries *)

\* What the handler of getConversations returns or throws.
getConversationsOutcome(caller) ==
    LET userId == getAuthUserId(caller) IN
    IF userId = NoUser
    THEN [error |-> Unauthenticated, value |-> <<>>]
    ELSE [error |-> Ok, value |-> OrderDesc(by_user(userId))]

getConversations(caller) ==
    /\ ret' = Result("getConversations", getConversationsOutcome(caller).error)
    /\ UNCHANGED <<conversations, messages, now, jobs>>

\* getMessages with the check reduced to !conversation: ownership not compared.
getMessagesOutcomeNoOwnerCheck(caller, conversationId) ==
    LET userId == getAuthUserId(caller) IN
    IF userId = NoUser
    THEN [error |-> Unauthenticated, value |-> <<>>]
    ELSE IF ~Exists(conversationId)
    THEN [error |-> NotFound, value |-> <<>>]
    ELSE [error |-> Ok, value |-> by_conversation(conversationId)]

\* What the handler of getMessages returns or throws.
getMessagesOutcome(caller, conversationId) ==
    LET userId == getAuthUserId(caller) IN
    IF userId = NoUser
    THEN [error |-> Unauthenticated, value |-> <<>>]
    ELSE IF ~Exists(conversationId) \/ conversations[conversationId].userId # userId
    THEN [error |-> NotFound, value |-> <<>>]
    ELSE [error |-> Ok, value |-> OrderAsc(by_conversation(conversationId))]

getMessages(caller, conversationId) ==
    /\ ret' = Result("getMessages", getMessagesOutcome(caller, conversationId).error)
    /\ UNCHANGED <<conversations, messages, now, jobs>>

\* getMessagesForAI that leaves out the newest row of the conversation.
getMessagesForAIWithoutNewest(conversationId) ==
    LET rows == OrderAsc(by_conversation(conversationId)) IN
    SubSeq(rows, 1, Len(rows) - 1)

\* Internal query: no auth check, no ownership check.
getMessagesForAI(conversationId) == OrderAsc(by_conversation(conversationId))

generalTips ==
    << [title |-> "Active Reading Strategy", category |-> "Reading"],
       [title |-> "Essay Structure", category |-> "Writing"],
       [title |-> "Time Management", category |-> "Study Skills"],
       [title |-> "Critical Thinking", category |-> "Analysis"] >>

getStudyTipsOutcome(caller, subject) ==
    LET userId == getAuthUserId(caller) IN
    IF userId = NoUser
    THEN [error |-> Unauthenticated, value |-> <<>>]
    ELSE [error |-> Ok, value |-> generalTips]

getStudyTips(caller, subject) ==
    /\ ret' = Result("getStudyTips", getStudyTipsOutcome(caller, subject).error)
    /\ UNCHANGED <<conversations, messages, now, jobs>>

academicResources ==
    << [title |-> "Citation Guides"],
       [title |-> "Research Databases"],
       [title |-> "Writing Centers"] >>

getAcademicResourcesOutcome(caller) ==
    LET userId == getAuthUserId(caller) IN
    IF userId = NoUser
    THEN [error |-> Unauthenticated, value |-> <<>>]
    ELSE [error |-> Ok, value |-> academicResources]

getAcademicResources(caller) ==
    /\ ret' = Result("getAcademicResources", getAcademicResourcesOutcome(caller).error)
    /\ UNCHANGED <<conversations, messages, now, jobs>>

---------------------------------------------------------------------------
(* Mutations *)

\* The row createConversation inserts.
NewConversation(userId, title) ==
    [_id |-> Len(conversations) + 1, userId |-> userId, title |-> title,
     lastMessageAt |-> now]

createConversation(caller, title) ==
    LET userId == getAuthUserId(caller) IN
    IF userId = NoUser
    THEN /\ ret' = Result("createConversation", Unauthenticated)
         /\ UNCHANGED <<conversations, messages, now, jobs>>
    ELSE /\ conversations' = Append(conversations, NewConversation(userId, title))
         /\ ret' = Result("createConversation", Ok)
         /\ UNCHANGED <<messages, now, jobs>>

\* The row ctx.db.insert("messages", ...) adds.
NewMessage(conversationId, userId, content, role) ==
    [_id |-> Len(messages) + 1, conversationId |-> conversationId,
     userId |-> userId, content |-> content, role |-> role, timestamp |-> now]

\* The run ctx.scheduler.runAfter(0, internal.chat.generateAIResponse, ...)
\* queues.  trigger and saved are bookkeeping: the user message the run was
\* scheduled for, and how many saveAIMessage calls of the run committed.
NewJob(conversationId) ==
    [conversationId |-> conversationId, pc |-> "scheduled", messages |-> <<>>,
     aiResponse |-> <<>>, error |-> NoError,
     trigger |-> Len(messages) + 1, saved |-> 0]

\* The patch written with the row's creation-time value instead of Date.now().
PatchLastMessageAtStale(conversationId) ==
    [conversations EXCEPT ![conversationId].lastMessageAt = 0]

\* ctx.db.patch(conversationId, {lastMessageAt: Date.now()})
PatchLastMessageAt(conversationId) ==
    [conversations EXCEPT ![conversationId].lastMessageAt = now]

\* sendMessage's writes with the run scheduled twice.
sendMessageWritesTwoRuns(userId, conversationId, content) ==
    /\ messages' = Append(messages,
                          NewMessage(conversationId, userId, content, "user"))
    /\ conversations' = PatchLastMessageAt(conversationId)
    /\ jobs' = Append(Append(jobs, NewJob(conversationId)), NewJob(conversationId))

\* Lines 95-112 of sendMessage: the writes after both checks passed.
sendMessageWrites(userId, conversationId, content) ==
    /\ messages' = Append(messages,
                          NewMessage(conversationId, userId, content, "user"))
    /\ conversations' = PatchLastMessageAt(conversationId)
    /\ jobs' = Append(jobs, NewJob(conversationId))

\* sendMessage with the conversation lookup before the authentication check.
sendMessageLookupFirst(caller, conversationId, content) ==
    LET userId == getAuthUserId(caller) IN
    IF ~Exists(conversationId) \/ conversations[conversationId].userId # userId
    THEN /\ ret' = Result("sendMessage", NotFound)
         /\ UNCHANGED <<conversations, messages, now, jobs>>
    ELSE IF userId = NoUser
    THEN /\ ret' = Result("sendMessage", Unauthenticated)
         /\ UNCHANGED <<conversations, messages, now, jobs>>
    ELSE /\ sendMessageWrites(userId, conversationId, content)
         /\ ret' = Result("sendMessage", Ok)
         /\ UNCHANGED now

\* sendMessage with the check reduced to !conversation: the message is
\* written on behalf of whoever calls.
sendMessageNoOwnerCheck(caller, conversationId, content) ==
    LET userId == getAuthUserId(caller) IN
    IF userId = NoUser
    THEN /\ ret' = Result("sendMessage", Unauthenticated)
         /\ UNCHANGED <<conversations, messages, now, jobs>>
    ELSE IF ~Exists(conversationId)
    THEN /\ ret' = Result("sendMessage", NotFound)
         /\ UNCHANGED <<conversations, messages, now, jobs>>
    ELSE /\ sendMessageWrites(userId, conversationId, content)
         /\ ret' = Result("sendMessage", Ok)
         /\ UNCHANGED now

sendMessage(caller, conversationId, content) ==
    LET userId == getAuthUserId(caller) IN
    IF userId = NoUser
    THEN /\ ret' = Result("sendMessage", Unauthenticated)
         /\ UNCHANGED <<conversations, messages, now, jobs>>
    ELSE IF ~Exists(conversationId) \/ conversations[conversationId].userId # userId
    THEN /\ ret' = Result("sendMessage", NotFound)
         /\ UNCHANGED <<conversations, messages, now, jobs>>
    ELSE /\ sendMessageWrites(userId, conversationId, content)
         /\ ret' = Result("sendMessage", Ok)
         /\ UNCHANGED now

\* saveAIMessage taking the owner from the request context, which an
\* internal mutation run by the scheduler does not have.
saveAIMessageOwnerFromContext(conversationId, content) ==
    /\ messages' = Append(messages,
                          NewMessage(conversationId, getAuthUserId(NoUser),
                                     content, "assistant"))
    /\ conversations' = PatchLastMessageAt(conversationId)

\* saveAIMessage that keeps one reply per turn: when the newest row is
\* already an assistant message of the conversation it is replaced.
saveAIMessageReplacingReply(conversationId, content) ==
    /\ messages' =
           IF /\ messages # <<>>
              /\ messages[Len(messages)].role = "assistant"
              /\ messages[Len(messages)].conversationId = conversationId
           THEN [messages EXCEPT ![Len(messages)].content = content,
                                 ![Len(messages)].timestamp = now]
           ELSE Append(messages,
                       NewMessage(conversationId, conversations[conversationId].userId,
                                  content, "assistant"))
    /\ conversations' = PatchLastMessageAt(conversationId)

\* saveAIMessage without its ctx.db.patch: the row is inserted only.
saveAIMessageNoPatch(conversationId, content) ==
    /\ messages' = Append(messages,
                          NewMessage(conversationId,
                                     conversations[conversationId].userId,
                                     content, "assistant"))
    /\ UNCHANGED conversations

\* The writes of saveAIMessage once the conversation was found.
saveAIMessage(conversationId, content) ==
    /\ messages' = Append(messages,
                          NewMessage(conversationId,
                                     conversations[conversationId].userId,
                                     content, "assistant"))
    /\ conversations' = PatchLastMessageAt(conversationId)

---------------------------------------------------------------------------
(* generateAIResponse *)

\* response.choices[0]?.message?.content
aiResponseOf(response) ==
    IF Len(response) = 0 THEN Undefined ELSE response[1].message.content

\* The test written as aiResponse == null: the empty string passes.
FalsyNullish(x) == x.kind # "string"

\* !aiResponse
Falsy(x) == x.kind # "string" \/ x.text = <<>>

Apology ==
    <<"I apologize, but I'm experiencing technical difficulties right now. ">>
RateLimitText ==
    <<"I'm currently handling many requests. Please try again in a moment.">>
NetworkText ==
    <<"There seems to be a connection issue. Please check your internet and try again.">>
RephraseText ==
    <<"Please try rephrasing your question or try again in a few moments.">>
NotAnErrorText ==
    <<"Please try again in a moment, and I'll do my best to help you with your studies.">>

\* The catch block with the two keyword tests in the other order.
errorMessageOfNetworkFirst(error) ==
    Apology \o
    ( IF error.isError
      THEN IF includes(error.message, <<"network">>) THEN NetworkText
           ELSE IF includes(error.message, <<"rate", "limit">>) THEN RateLimitText
           ELSE RephraseText
      ELSE NotAnErrorText )

\* The catch block's choice of errorMessage.
errorMessageOf(error) ==
    Apology \o
    ( IF error.isError
      THEN IF includes(error.message, <<"rate", "limit">>) THEN RateLimitText
           ELSE IF includes(error.message, <<"network">>) THEN NetworkText
           ELSE RephraseText
      ELSE NotAnErrorText )

NoResponse == ErrorOf(<<"No", "response", "from", "AI">>)

\* Control enters the catch block with the thrown value; the locals of the
\* try block (messages, aiResponse) go out of scope.
Caught(job, e) ==
    [job EXCEPT !.pc = "caught", !.error = e, !.messages = <<>>, !.aiResponse = <<>>]

\* The action's promise settles: resolved ("done") or rejected.  Its locals
\* are gone; saved counts the saveAIMessage calls of the run that committed.
Settled(job, how, n) ==
    [job EXCEPT !.pc = how, !.error = NoError, !.messages = <<>>,
                !.aiResponse = <<>>, !.saved = @ + n]

\* await ctx.runQuery(internal.chat.getMessagesForAI, ...)
GenFetch(j) ==
    /\ jobs[j].pc = "scheduled"
    /\ \/ jobs' = [jobs EXCEPT ![j].pc = "fetched",
                               ![j].messages = getMessagesForAI(jobs[j].conversationId)]
       \/ \E e \in RunErrors : jobs' = [jobs EXCEPT ![j] = Caught(@, e)]
    /\ UNCHANGED <<conversations, messages, now, ret>>

\* await openai.chat.completions.create(...) and the check of its result
GenCall(j) ==
    /\ jobs[j].pc = "fetched"
    /\ \/ \E response \in ProviderResponses :
              IF Falsy(aiResponseOf(response))
              THEN jobs' = [jobs EXCEPT ![j] = Caught(@, NoResponse)]
              ELSE jobs' = [jobs EXCEPT ![j].pc = "responded",
                                        ![j].aiResponse = aiResponseOf(response).text]
       \/ \E e \in Thrown : jobs' = [jobs EXCEPT ![j] = Caught(@, e)]
    /\ UNCHANGED <<conversations, messages, now, ret>>

\* What a ctx.runMutation(internal.chat.saveAIMessage, ...) that does not
\* commit throws: the handler's own error when the row is missing, else a
\* failure of the platform.
SaveErrors(conversationId) ==
    IF Exists(conversationId)
    THEN RunErrors
    ELSE { ErrorOf(<<"Conversation", "not", "found">>) }

\* await ctx.runMutation(internal.chat.saveAIMessage, {content: aiResponse})
GenSave(j) ==
    /\ jobs[j].pc = "responded"
    /\ \/ /\ Exists(jobs[j].conversationId)
          /\ saveAIMessage(jobs[j].conversationId, jobs[j].aiResponse)
          /\ jobs' = [jobs EXCEPT ![j] = Settled(@, "done", 1)]
       \/ /\ \E e \in SaveErrors(jobs[j].conversationId) :
                 jobs' = [jobs EXCEPT ![j] = Caught(@, e)]
          /\ UNCHANGED <<conversations, messages>>
    /\ UNCHANGED <<now, ret>>

\* The catch block: errorMessage, then runMutation(saveAIMessage) outside
\* any try; if that rejects, the action rejects.
GenCatch(j) ==
    /\ jobs[j].pc = "caught"
    /\ \/ /\ Exists(jobs[j].conversationId)
          /\ saveAIMessage(jobs[j].conversationId, errorMessageOf(jobs[j].error))
          /\ jobs' = [jobs EXCEPT ![j] = Settled(@, "done", 1)]
       \/ /\ SaveErrors(jobs[j].conversationId) # {}
          /\ jobs' = [jobs EXCEPT ![j] = Settled(@, "rejected", 0)]
          /\ UNCHANGED <<conversations, messages>>
    /\ UNCHANGED <<now, ret>>

generateAIResponse(j) == GenFetch(j) \/ GenCall(j) \/ GenSave(j) \/ GenCatch(j)

---------------------------------------------------------------------------
(* The clock *)

Tick ==
    /\ now' = now + 1
    /\ UNCHANGED <<conversations, messages, jobs, ret>>

---------------------------------------------------------------------------

Init ==
    /\ conversations = <<>>
    /\ messages = <<>>
    /\ now = 0
    /\ jobs = <<>>
    /\ ret = Result("none", Ok)

Next ==
    \/ \E caller \in Callers : getConversations(caller)
    \/ \E caller \in Callers, c \in ConversationIds : getMessages(caller, c)
    \/ \E caller \in Callers, title \in Titles :
           createConversation(caller, title) /\ Len(conversations') <= MaxConversations
    \/ \E caller \in Callers, c \in ConversationIds, content \in Contents :
           sendMessage(caller, c, content) /\ Len(jobs') <= MaxSubmits
    \/ \E caller \in Callers, subject \in Subjects : getStudyTips(caller, subject)
    \/ \E caller \in Callers : getAcademicResources(caller)
    \/ \E j \in DOMAIN jobs : GenFetch(j)
    \/ \E j \in DOMAIN jobs : GenCall(j)
    \/ \E j \in DOMAIN jobs : GenSave(j)
    \/ \E j \in DOMAIN jobs : GenCatch(j)
    \/ Tick /\ now' <= MaxTime

Spec == Init /\ [][Next]_vars

---------------------------------------------------------------------------
(* One run of generateAIResponse on every thrown value.                    *)
(* It starts after user u1 created conversation 1 and sent one message:    *)
(* the run is either about to call the provider, or in the catch block     *)
(* with any value of AllThrown.                                            *)

GenInitJob ==
    { [NewJob(1) EXCEPT !.pc = "fetched", !.trigger = 1,
                        !.messages = <<[_id |-> 1, conversationId |-> 1, userId |-> "u1",
                                        content |-> <<"hello">>, role |-> "user",
                                        timestamp |-> 0]>>] }
    \cup { Caught([NewJob(1) EXCEPT !.trigger = 1], e) : e \in AllThrown }

GenInit ==
    /\ conversations = << [_id |-> 1, userId |-> "u1", title |-> <<"Essay", "Help">>,
                           lastMessageAt |-> 0] >>
    /\ messages = << [_id |-> 1, conversationId |-> 1, userId |-> "u1",
                      content |-> <<"hello">>, role |-> "user", timestamp |-> 0] >>
    /\ now = 0
    /\ jobs \in { <<job>> : job \in GenInitJob }
    /\ ret = Result("sendMessage", Ok)

GenNext ==
    \/ \E j \in DOMAIN jobs : GenCall(j)
    \/ \E j \in DOMAIN jobs : GenSave(j)
    \/ \E j \in DOMAIN jobs : GenCatch(j)
    \/ Tick /\ now' <= MaxTime

GenSpec == GenInit /\ [][GenNext]_vars

---------------------------------------------------------------------------
(* Properties *)

Settled_(job) == job.pc \in {"done", "rejected"}
AssistantMessages == { i \in DOMAIN messages : messages[i].role = "assistant" }
Owner(c) == conversations[c].userId
Last(s) == s[Len(s)]

\* C1: every run of generateAIResponse that has settled wrote exactly one
\* assistant message, whichever of its awaits failed.
C1_ExactlyOneAssistantPerJob ==
    \A j \in DOMAIN jobs : Settled_(jobs[j]) => jobs[j].saved = 1

\* C2: getConversations lists a user's conversations in non-increasing order
\* of lastMessageAt.
C2_NewestActivityFirst ==
    \A u \in Users :
        LET l == getConversationsOutcome(u).value IN
        \A i \in 1 .. (Len(l) - 1) : l[i].lastMessageAt >= l[i + 1].lastMessageAt

\* What getConversations gives user u is, without repetition, exactly the
\* rows whose userId is u.
ListsExactlyOwn(u) ==
    LET out == getConversationsOutcome(u) IN
    /\ out.error = Ok
    /\ { out.value[i]._id : i \in DOMAIN out.value }
           = { c \in DOMAIN conversations : Owner(c) = u }
    /\ \A i, k \in DOMAIN out.value : out.value[i]._id = out.value[k]._id => i = k
    /\ \A i \in DOMAIN out.value : out.value[i] = conversations[out.value[i]._id]

\* C3: in every state getConversations gives each user exactly the
\* conversations whose userId is that user, so U's list has U's conversation
\* and no other user's list has it; and the conversation createConversation
\* makes for U has userId U ever after.
C3_ListIsExactlyOwn ==
    /\ [](\A u \in Users : ListsExactlyOwn(u))
    /\ [][ /\ \A u \in Users, t \in Titles :
                   (createConversation(u, t) /\ ret'.error = Ok)
                       => /\ Len(conversations') = Len(conversations) + 1
                          /\ Last(conversations').userId = u
            /\ \A c \in DOMAIN conversations :
                   c \in DOMAIN conversations' /\ conversations'[c].userId = Owner(c) ]_vars

C3_Witness ==
    /\ ret = Result("getConversations", Ok)
    /\ \E c1, c2 \in DOMAIN conversations : Owner(c1) = "u1" /\ Owner(c2) = "u2"
    /\ Len(getConversationsOutcome("u1").value) = 1

\* C4: getMessages by an authenticated user on an identifier that is no
\* conversation, or is another user's conversation, throws "Conversation not
\* found" and returns no message.
C4_NotOwnedIsNotFound ==
    \A u \in Users, c \in ConversationIds :
        (~Exists(c) \/ Owner(c) # u)
            => /\ getMessagesOutcome(u, c).error = NotFound
               /\ getMessagesOutcome(u, c).value = <<>>

C4_Witness ==
    /\ ret = Result("getMessages", NotFound)
    /\ \A c \in 1 .. MaxConversations :
           Exists(c) /\ Owner(c) = "u1" /\ by_conversation(c) # <<>>

\* C5: with no user resolved, every public function throws "Not
\* authenticated", whether or not its conversation argument exists, and
\* writes no row and schedules no run.
C5_UnauthenticatedFailsWithoutWrites ==
    [][ ( \/ getConversations(NoUser)
          \/ \E c \in ConversationIds : getMessages(NoUser, c)
          \/ \E t \in Titles : createConversation(NoUser, t)
          \/ \E c \in ConversationIds, s \in Contents : sendMessage(NoUser, c, s)
          \/ \E subject \in Subjects : getStudyTips(NoUser, subject)
          \/ getAcademicResources(NoUser) )
        => /\ ret'.error = Unauthenticated
           /\ UNCHANGED <<conversations, messages, jobs>> ]_vars

C5_Witness ==
    /\ ret = Result("sendMessage", Unauthenticated)
    /\ Len(conversations) = MaxConversations
    /\ messages # <<>>

\* C6: a sendMessage(U, C, content) that succeeds adds exactly one message,
\* and that to C, with role "user", the given content and owner U; and C's
\* lastMessageAt is not less than before.
C6_SubmitAddsOneUserMessage ==
    [][ \A u \in Users, c \in ConversationIds, s \in Contents :
            (sendMessage(u, c, s) /\ ret'.error = Ok)
                => /\ Len(messages') = Len(messages) + 1
                   /\ SubSeq(messages', 1, Len(messages)) = messages
                   /\ Last(messages').conversationId = c
                   /\ Last(messages').role = "user"
                   /\ Last(messages').content = s
                   /\ Last(messages').userId = u
                   /\ conversations'[c].lastMessageAt >= conversations[c].lastMessageAt ]_vars

C6_Witness ==
    /\ ret = Result("sendMessage", Ok)
    /\ Len(messages) >= 2
    /\ Last(messages).role = "user"
    /\ conversations[Last(messages).conversationId].lastMessageAt = MaxTime

\* C7: a sendMessage by an authenticated user on an identifier that is no
\* conversation, or is another user's conversation, throws "Conversation not
\* found" and changes no table and schedules no run; and any sendMessage
\* either does all of insert, patch and schedule, or none of them.
C7_NotFoundLeavesStoreUnchanged ==
    [][ \A u \in Users, c \in ConversationIds, s \in Contents :
            sendMessage(u, c, s)
                => /\ (~Exists(c) \/ Owner(c) # u)
                          => /\ ret'.error = NotFound
                             /\ UNCHANGED <<conversations, messages, jobs>>
                   /\ \/ UNCHANGED <<conversations, messages, jobs>>
                      \/ /\ Len(messages') = Len(messages) + 1
                         /\ Len(jobs') = Len(jobs) + 1
                         /\ Last(jobs').conversationId = c
                         /\ conversations'[c].lastMessageAt = Last(messages').timestamp ]_vars

C7_Witness ==
    /\ ret = Result("sendMessage", NotFound)
    /\ \E c \in DOMAIN conversations : Owner(c) = "u1" /\ by_conversation(c) # <<>>
    /\ \E c \in DOMAIN conversations : Owner(c) = "u2" /\ by_conversation(c) = <<>>

HasRateLimit(d) == \E i \in 1 .. (Len(d) - 1) : d[i] = "rate" /\ d[i + 1] = "limit"
HasNetwork(d) == \E i \in DOMAIN d : d[i] = "network"

\* The message a step of the catch block has just saved for run j is an
\* assistant message with this wording after the apology.
CatchSaved(j) == GenCatch(j) /\ Len(messages') = Len(messages) + 1

\* C8 as stated: three wordings chosen by the description alone: "rate
\* limit" gives the throttling text, "network" the connectivity text, and
\* everything else, a thrown value that is no Error object included, the one
\* generic text an empty provider response gets.
C8_ThreeWordings ==
    [][ \A j \in DOMAIN jobs :
            CatchSaved(j)
                => Last(messages').content
                       = Apology \o ( IF HasRateLimit(jobs[j].error.message) THEN RateLimitText
                                      ELSE IF HasNetwork(jobs[j].error.message) THEN NetworkText
                                      ELSE RephraseText ) ]_vars

\* C8 amended: four wordings.  A thrown value that is no Error object gets
\* its own fallback text whatever its description; an Error whose message
\* contains "rate limit" gets the throttling text; an Error whose message
\* contains "network" and not "rate limit" gets the connectivity text; any
\* other Error, the empty provider response included, gets the generic text.
C8_FourWordings ==
    [][ \A j \in DOMAIN jobs :
            CatchSaved(j)
                => LET e == jobs[j].error
                       m == Last(messages') IN
                   /\ m.role = "assistant"
                   /\ (~e.isError) => m.content = Apology \o NotAnErrorText
                   /\ (e.isError /\ HasRateLimit(e.message))
                          => m.content = Apology \o RateLimitText
                   /\ (e.isError /\ HasNetwork(e.message) /\ ~HasRateLimit(e.message))
                          => m.content = Apology \o NetworkText
                   /\ (e.isError /\ ~HasNetwork(e.message) /\ ~HasRateLimit(e.message))
                          => m.content = Apology \o RephraseText
                   /\ (e = NoResponse) => m.content = Apology \o RephraseText ]_vars

C8_Witness ==
    /\ jobs[1].pc = "done"
    /\ Len(messages) = 2
    /\ messages[2].role = "assistant"
    /\ messages[2].content = Apology \o NetworkText

\* C9: no assistant message has empty content, and a provider response with
\* no choice, null content or empty content never becomes the reply to save.
C9_AssistantContentNonEmpty ==
    /\ \A i \in AssistantMessages : messages[i].content # <<>>
    /\ \A j \in DOMAIN jobs : jobs[j].pc = "responded" => jobs[j].aiResponse # <<>>

C9_Witness ==
    /\ \E j \in DOMAIN jobs : jobs[j].pc = "caught" /\ jobs[j].error = NoResponse
    /\ \E i \in AssistantMessages : messages[i].content = <<"Start", "by">>

\* rows is every message of conversation c, each once, oldest first: by
\* timestamp, and by insertion where timestamps are equal.
OldestFirst(rows, c) ==
    /\ { rows[i]._id : i \in DOMAIN rows }
           = { i \in DOMAIN messages : messages[i].conversationId = c }
    /\ \A i \in DOMAIN rows : rows[i] = messages[rows[i]._id]
    /\ \A i, k \in DOMAIN rows :
           i < k => /\ rows[i].timestamp <= rows[k].timestamp
                    /\ rows[i]._id < rows[k]._id

\* C10: getMessages, to the owner, and getMessagesForAI return all messages
\* of the conversation oldest first, equal timestamps in insertion order.
C10_MessagesOldestFirst ==
    \A c \in DOMAIN conversations :
        /\ getMessagesOutcome(Owner(c), c).error = Ok
        /\ OldestFirst(getMessagesOutcome(Owner(c), c).value, c)
        /\ OldestFirst(getMessagesForAI(c), c)

\* One sendMessage and its successful run on a new conversation: the list is
\* the user message, then the assistant message with the provider's text.
C10_Witness ==
    /\ ret = Result("getMessages", Ok)
    /\ Len(jobs) = 1 /\ jobs[1].pc = "done"
    /\ LET rows == getMessagesOutcome("u1", 1).value IN
       /\ Len(rows) = 2
       /\ rows[1].role = "user" /\ rows[1].content = <<"hello">>
       /\ rows[2].role = "assistant" /\ rows[2].content = <<"Start", "by">>
       /\ rows[1].timestamp < rows[2].timestamp

\* A step that appends one row to table messages, for conversation c.
AppendsTo(c) ==
    /\ Len(messages') = Len(messages) + 1
    /\ SubSeq(messages', 1, Len(messages)) = messages
    /\ Last(messages').conversationId = c

\* C11: between operations, a conversation with at least one message has
\* as lastMessageAt the timestamp of the last message appended to it; and
\* after creation lastMessageAt changes only in a step of sendMessage or
\* saveAIMessage that appends a message to that conversation.
C11_LastMessageAtIsLastTimestamp ==
    /\ [](\A c \in DOMAIN conversations :
              by_conversation(c) # <<>>
                  => conversations[c].lastMessageAt = Last(by_conversation(c)).timestamp)
    /\ [][ \A c \in DOMAIN conversations :
               conversations'[c].lastMessageAt # conversations[c].lastMessageAt
                   => /\ AppendsTo(c)
                      /\ \/ \E u \in Users, s \in Contents : sendMessage(u, c, s)
                         \/ \E j \in DOMAIN jobs :
                                jobs[j].conversationId = c /\ (GenSave(j) \/ GenCatch(j)) ]_vars

C11_Witness ==
    \E c \in DOMAIN conversations :
        LET rows == by_conversation(c) IN
        /\ Len(rows) = 2
        /\ rows[1].role = "user" /\ rows[1].timestamp = 0
        /\ rows[2].role = "assistant" /\ rows[2].timestamp = 1
        /\ conversations[c].lastMessageAt = 1

\* Position of the row with identifier id in rows (0 when absent).
PositionOf(rows, id) ==
    IF \E i \in DOMAIN rows : rows[i]._id = id
    THEN CHOOSE i \in DOMAIN rows : rows[i]._id = id
    ELSE 0

\* C12: a run never acts before the sendMessage that scheduled it has
\* committed: the user message it was scheduled for is in the table from the
\* moment the run exists, the history the run fetches contains it, and the
\* assistant message the run saves comes after it in getMessages order.
C12_GenerateAfterSubmit ==
    /\ [](\A j \in DOMAIN jobs :
              /\ jobs[j].trigger \in DOMAIN messages
              /\ messages[jobs[j].trigger].role = "user"
              /\ messages[jobs[j].trigger].conversationId = jobs[j].conversationId
              /\ jobs[j].pc \in {"fetched", "responded"}
                     => PositionOf(jobs[j].messages, jobs[j].trigger) > 0)
    /\ [][ \A j \in DOMAIN jobs :
               ((GenSave(j) \/ GenCatch(j)) /\ Len(messages') = Len(messages) + 1)
                   => LET c == jobs[j].conversationId
                          rows == getMessagesOutcome(Owner(c), c).value' IN
                      /\ Last(messages').role = "assistant"
                      /\ Last(messages').conversationId = c
                      /\ PositionOf(rows, jobs[j].trigger) > 0
                      /\ PositionOf(rows, jobs[j].trigger)
                             < PositionOf(rows, Last(messages')._id) ]_vars

\* sendMessage has returned, its user message is stored, and the run it
\* scheduled has not started: no reply is written yet.
C12_Witness ==
    /\ ret = Result("sendMessage", Ok)
    /\ Len(jobs) = 1 /\ jobs[1].pc = "scheduled"
    /\ Len(messages) = 1 /\ messages[1].role = "user"
    /\ AssistantMessages = {}

JobsOf(c) == { j \in DOMAIN jobs : jobs[j].conversationId = c }
AssistantMessagesOf(c) == { i \in AssistantMessages : messages[i].conversationId = c }
UserMessagesOf(c) ==
    { i \in DOMAIN messages : messages[i].conversationId = c /\ messages[i].role = "user" }

\* C13: when a conversation received several sendMessage calls and all the
\* runs they queued have settled, it holds one assistant message per run,
\* and its lastMessageAt is the value the last saveAIMessage wrote.
C13_OneAssistantPerConcurrentJob ==
    \A c \in DOMAIN conversations :
        (Cardinality(JobsOf(c)) >= 2 /\ \A j \in JobsOf(c) : Settled_(jobs[j]))
            => /\ Cardinality(AssistantMessagesOf(c)) = Cardinality(JobsOf(c))
               /\ LET newest == CHOOSE i \in AssistantMessagesOf(c) :
                                    \A k \in AssistantMessagesOf(c) : k <= i IN
                  conversations[c].lastMessageAt = messages[newest].timestamp

\* C14: every message belongs to a conversation that exists and carries that
\* conversation's userId, whether sendMessage or saveAIMessage wrote it; and
\* no step changes the userId of a conversation.
C14_MessageOwnerIsConversationOwner ==
    /\ [](\A i \in DOMAIN messages :
              /\ Exists(messages[i].conversationId)
              /\ messages[i].userId = Owner(messages[i].conversationId)
              /\ messages[i].userId \in Users)
    /\ [][ \A c \in DOMAIN conversations :
               Exists(c)' /\ conversations'[c].userId = conversations[c].userId ]_vars

C14_Witness ==
    /\ \E i \in AssistantMessages : messages[i].userId = "u2"
    /\ \E i \in DOMAIN messages : messages[i].role = "user" /\ messages[i].userId = "u1"
    /\ \E c \in DOMAIN conversations : Owner(c) = "u1"

\* C15: no step removes or alters a conversation (only its lastMessageAt may
\* change) or a message: table messages stays as it is or gets one row at
\* its end, and so does every conversation's own sequence of messages.
C15_AppendOnly ==
    [][ /\ \A c \in DOMAIN conversations :
               /\ c \in DOMAIN conversations'
               /\ conversations'[c]._id = conversations[c]._id
               /\ conversations'[c].userId = conversations[c].userId
               /\ conversations'[c].title = conversations[c].title
        /\ \/ messages' = messages
           \/ /\ Len(messages') = Len(messages) + 1
              /\ SubSeq(messages', 1, Len(messages)) = messages
              /\ \A c \in DOMAIN conversations :
                     \/ by_conversation(c)' = by_conversation(c)
                     \/ by_conversation(c)' = Append(by_conversation(c), Last(messages')) ]_vars

C15_Witness ==
    /\ Len(messages) = 2 * MaxSubmits
    /\ Cardinality(AssistantMessages) = MaxSubmits
    /\ \E c \in DOMAIN conversations :
           Len(by_conversation(c)) = Len(messages) /\ conversations[c].lastMessageAt = MaxTime

\* C16: every conversation has exactly one queued run per user message, so
\* runs come from successful sendMessage calls alone; it has at most as many
\* assistant messages as user messages; its first message, if any, is a user
\* message; and with no successful sendMessage it has no message.
C16_AssistantOnlyFromSubmit ==
    /\ \A c \in DOMAIN conversations :
           /\ Cardinality(JobsOf(c)) = Cardinality(UserMessagesOf(c))
           /\ Cardinality(AssistantMessagesOf(c)) <= Cardinality(UserMessagesOf(c))
           /\ by_conversation(c) # <<>> => by_conversation(c)[1].role = "user"
           /\ JobsOf(c) = {} => by_conversation(c) = <<>>
    /\ \A j \in DOMAIN jobs : Exists(jobs[j].conversationId)
    /\ \A i \in DOMAIN messages : Exists(messages[i].conversationId)

C16_Witness ==
    /\ Len(conversations) = 2
    /\ Cardinality(UserMessagesOf(1)) = 2 /\ Cardinality(AssistantMessagesOf(1)) = 1
    /\ by_conversation(2) = <<>>
    /\ \E j \in DOMAIN jobs : jobs[j].pc = "rejected"

============================================================================
